---------------------------- MODULE Spec2Model ----------------------------
(***************************************************************************)
(* Model of the eBay -> Google Sheets synchronizer (main.py, parser/).     *)
(*                                                                         *)
(* Text is modelled as a sequence of lexemes (a Python str is the          *)
(* concatenation of its lexemes); substring tests, str.replace and         *)
(* str.strip work lexeme-wise.  The DOM of a page is modelled by the       *)
(* elements each selector of parser.py matches, in document order.         *)
(***************************************************************************)
EXTENDS Integers, Sequences, FiniteSets, TLC

-----------------------------------------------------------------------------
(* Bounds of the model *)

\* data rows of a store
MaxRows == 2
\* lexemes in the text of the first bold shipping span
MaxTextLen == 3

-----------------------------------------------------------------------------
(* Python values: None, an int, a str *)

None == [tag |-> "none", n |-> 0, s |-> <<>>]
IntVal(k) == [tag |-> "int", n |-> k, s |-> <<>>]
StrVal(t) == [tag |-> "str", n |-> 0, s |-> t]

-----------------------------------------------------------------------------
(* str methods *)

WS == " "

RECURSIVE lstrip(_)
lstrip(t) ==
    IF t # <<>> /\ Head(t) = WS THEN lstrip(Tail(t)) ELSE t

RECURSIVE rstrip(_)
rstrip(t) ==
    IF t # <<>> /\ t[Len(t)] = WS THEN rstrip(SubSeq(t, 1, Len(t) - 1)) ELSE t

strip(t) == rstrip(lstrip(t))

\* t.replace(sub, "")
replace(t, sub) == SelectSeq(t, LAMBDA x : x # sub)

\* sub in t
contains(t, sub) == \E i \in 1..Len(t) : t[i] = sub

\* list.index(x), 0-based; defined when x occurs
index(l, x) == (CHOOSE i \in 1..Len(l) : l[i] = x /\ \A j \in 1..(i - 1) : l[j] # x) - 1

occurs(l, x) == \E i \in 1..Len(l) : l[i] = x

RECURSIVE concat(_)
concat(ts) == IF ts = <<>> THEN <<>> ELSE Head(ts) \o concat(Tail(ts))

-----------------------------------------------------------------------------
(* parser/parser.py.  An element is the sequence of its span children,     *)
(* each [bold, text]; a page gives, per selector, the matching elements.   *)

Span(b, t) == [bold |-> b, text |-> t]

\* el.get_text(strip=True): the stripped strings of the element, joined
get_text(el) == concat([i \in 1..Len(el) |-> strip(el[i].text)])

\* find_all("span", class_="ux-textspans ux-textspans--BOLD")
bold_spans_of(el) == SelectSeq(el, LAMBDA sp : sp.bold)

\* Parser._get_element: <<>> when nothing qualifies, else <<element>>
get_element(elements, contains_any) ==
    IF elements = <<>> THEN <<>>
    ELSE IF contains_any = {} THEN <<elements[1]>>
    ELSE LET hits == SelectSeq(elements,
                       LAMBDA el : \E sub \in contains_any : contains(get_text(el), sub))
         IN  IF hits = <<>> THEN <<>> ELSE <<hits[1]>>

get_price(page) ==
    LET block == get_element(page.price, {})
    IN  IF block = <<>> THEN None
        ELSE LET text == strip(replace(replace(get_text(block[1]), "US $"), "/ea"))
             IN  IF text = <<>> THEN None ELSE StrVal(text)

get_shipping_wrong_order(page) ==
    LET block == get_element(page.shipping, {})
    IN  IF block = <<>> THEN None
        ELSE LET bold_spans == bold_spans_of(block[1])
             IN  IF bold_spans = <<>> THEN None
                 ELSE LET text == strip(bold_spans[1].text)
                      IN  IF contains(text, "US $") THEN StrVal(strip(replace(text, "US $")))
                          ELSE IF contains(text, "Free") THEN IntVal(0)
                          ELSE IF contains(text, "May not ship to")
                               THEN StrVal(<<"Cannot be delivered to your country">>)
                          ELSE StrVal(text)

get_shipping(page) ==
    LET block == get_element(page.shipping, {})
    IN  IF block = <<>> THEN None
        ELSE LET bold_spans == bold_spans_of(block[1])
             IN  IF bold_spans = <<>> THEN None
                 ELSE LET text == strip(bold_spans[1].text)
                      IN  IF contains(text, "Free") THEN IntVal(0)
                          ELSE IF contains(text, "May not ship to")
                               THEN StrVal(<<"Cannot be delivered to your country">>)
                          ELSE IF contains(text, "US $")
                               THEN StrVal(strip(replace(text, "US $")))
                          ELSE StrVal(text)

Weekdays == {"Mon", "Tue", "Wed", "Thu", "Fri", "Sat", "Sun"}

get_delivery_time(page) ==
    LET block == get_element(page.delivery, Weekdays)
    IN  IF block = <<>> THEN None
        ELSE LET bold_spans == bold_spans_of(block[1])
             IN  IF Len(bold_spans) >= 2
                 THEN StrVal(strip(bold_spans[1].text) \o <<" to ">> \o strip(bold_spans[2].text))
                 ELSE IF block[1] = <<>> THEN None
                 ELSE StrVal(strip(block[1][1].text))

\* html.unescape
unescape(t) == [i \in 1..Len(t) |-> IF t[i] = "&amp;" THEN "&" ELSE t[i]]

get_title(page) ==
    IF page.title = <<>> THEN None
    ELSE StrVal(replace(unescape(get_text(page.title[1])), " | eBay"))

get_param(page, name) ==
    LET block == get_element(page.params, {name})
    IN  IF block = <<>> THEN None
        ELSE IF Len(block[1]) < 2 THEN None
        ELSE StrVal(strip(block[1][2].text))

-----------------------------------------------------------------------------
(* parser/request.py *)

_BAD_SIGNATURES ==
    { "Checking your browser before accessing",
      "Service Unavailable - Zero size object",
      "To continue, please verify that you are not a robot" }

\* the page source "": no text, no element
EmptyHtml ==
    [body |-> <<>>, price |-> <<>>, shipping |-> <<>>, delivery |-> <<>>,
     title |-> <<>>, params |-> <<>>]

_is_bad_page(html) ==
    IF html = EmptyHtml THEN TRUE
    ELSE \E sig \in _BAD_SIGNATURES : contains(html.body, sig)

\* get_page after get_driver(): <<>> is None, <<html>> the page source.
\* driver_error: driver.get / page_source raised inside the try block.
get_page(html, driver_error) ==
    IF driver_error THEN <<>>
    ELSE IF _is_bad_page(html) THEN <<>>
    ELSE <<html>>

-----------------------------------------------------------------------------
(* Page sources the browser can hand back *)

BlockedHtml ==
    [EmptyHtml EXCEPT !.body = <<"To continue, please verify that you are not a robot">>,
                      !.title = << <<Span(FALSE, <<"Security Measure">>)>> >>]

\* a complete listing
Listing1 ==
    [body |-> <<"listing">>,
     price |-> << <<Span(FALSE, <<"US $", "49.99", "/ea">>)>>,
                  <<Span(FALSE, <<"US $", "59.99">>)>> >>,
     shipping |-> << <<Span(FALSE, <<"Shipping:">>), Span(TRUE, <<"US $", "15.00">>),
                       Span(FALSE, <<"Standard">>)>> >>,
     delivery |-> << <<Span(FALSE, <<"Located in: Ohio">>)>>,
                     <<Span(FALSE, <<"Estimated between">>),
                       Span(TRUE, <<"Mon", ", Jun 2">>), Span(TRUE, <<"Fri", ", Jun 6">>)>> >>,
     title |-> << <<Span(FALSE, <<"Drill ", "&amp;", " bits", " | eBay">>)>> >>,
     params |-> << <<Span(FALSE, <<"Condition">>), Span(FALSE, <<"New">>)>>,
                   <<Span(FALSE, <<"Brand">>), Span(FALSE, <<"Bosch">>)>>,
                   <<Span(FALSE, <<"MPN">>), Span(FALSE, <<"GSR12">>)>>,
                   <<Span(FALSE, <<"Model">>), Span(FALSE, <<"GSR">>)>> >>]

\* a sparse listing: free shipping, one delivery date, few attributes
Listing2 ==
    [body |-> <<"listing">>,
     price |-> << <<Span(FALSE, <<" ", "US $">>)>> >>,
     shipping |-> << <<Span(TRUE, <<"Free", " ", "2-4 day shipping">>)>> >>,
     delivery |-> << <<Span(FALSE, <<" ", "Sat", ", Jun 7">>)>> >>,
     title |-> << <<Span(FALSE, <<"Saw", " | eBay">>)>> >>,
     params |-> << <<Span(FALSE, <<"Condition">>), Span(FALSE, <<"Used">>)>>,
                   <<Span(FALSE, <<"Brand">>)>> >>]

Htmls == {EmptyHtml, BlockedHtml, Listing1, Listing2}

-----------------------------------------------------------------------------
(* main.py: Item *)

\* Item with "" for a field not parsed yet
Item_blank_price(link) ==
    [link |-> link, price |-> StrVal(<<>>), shipping |-> None, delivery |-> None,
     title |-> None, condition |-> None, mpn |-> None, brand |-> None, model |-> None]

Item(link) ==
    [link |-> link, price |-> None, shipping |-> None, delivery |-> None,
     title |-> None, condition |-> None, mpn |-> None, brand |-> None, model |-> None]

\* the eight assignments of the try block, in order
Fields == <<"price", "shipping", "delivery", "title", "condition", "mpn", "brand", "model">>

NumFields == Len(Fields)

\* the value the k-th statement of the try block assigns
extract(k, page) ==
    CASE k = 1 -> get_price(page)
      [] k = 2 -> get_shipping(page)
      [] k = 3 -> get_delivery_time(page)
      [] k = 4 -> get_title(page)
      [] k = 5 -> get_param(page, "Condition")
      [] k = 6 -> get_param(page, "MPN")
      [] k = 7 -> get_param(page, "Brand")
      [] k = 8 -> get_param(page, "Model")

\* Where an attempt's parsing raises: 0 in Parser(page), k in the k-th
\* statement of the try block, NoFault nowhere.
NoFault == NumFields + 1

\* The fault points explored: the constructor, the first statement (nothing
\* assigned yet), one in the middle (two fields assigned), and none.
Faults == {0, 1, 3, NoFault}

\* the record after the statements of the try block that ran before the
\* fault: statement k assigns item.<Fields[k]> only if it returned
try_block(it, page, fault) ==
    [f \in DOMAIN it |->
        IF f = "link" THEN it.link
        ELSE LET k == index(Fields, f) + 1
             IN  IF k < fault THEN extract(k, page) ELSE it[f]]

-----------------------------------------------------------------------------
(* main.py: the sheet.  sheet.get_all_values() is a list of rows of equal  *)
(* width, the first one the header; a cell is a text.                      *)

\* column names update_sheet resolves, in the order of its col() calls
Columns ==
    <<"link", "price", "shipping price", "delivery time", "title",
      "condition", "mpn", "brand", "model">>

\* the output column of the k-th field
OutColumn(k) == Columns[k + 1]

has_column(headers, name) == occurs(headers, <<name>>)

\* get_links
get_links_error(values) ==
    values # <<>> /\ ~has_column(values[1], "link")

get_links(values) ==
    IF values = <<>> THEN <<>>
    ELSE LET link_col_index == index(values[1], <<"link">>)
             cells == [i \in 1..(Len(values) - 1) |->
                          strip(values[i + 1][link_col_index + 1])]
         IN  SelectSeq(cells, LAMBDA link : link # <<>>)

\* chr(65 + remainder)
chr65(remainder) ==
    <<"A", "B", "C", "D", "E", "F", "G", "H", "I", "J", "K", "L", "M",
      "N", "O", "P", "Q", "R", "S", "T", "U", "V", "W", "X", "Y", "Z">>[remainder + 1]

\* column_to_letter without the "- 1" of divmod(col - 1, 26)
RECURSIVE column_to_letter_no_dec_loop(_, _)
column_to_letter_no_dec_loop(c, result) ==
    IF c > 0
    THEN column_to_letter_no_dec_loop(c \div 26, <<chr65(c % 26)>> \o result)
    ELSE result

column_to_letter_no_dec(c) == column_to_letter_no_dec_loop(c, <<>>)

RECURSIVE column_to_letter_loop(_, _)
column_to_letter_loop(col, result) ==
    IF col > 0
    THEN column_to_letter_loop((col - 1) \div 26, <<chr65((col - 1) % 26)>> \o result)
    ELSE result

column_to_letter(col) == column_to_letter_loop(col, <<>>)

\* val(v) of update_sheet
val(v) == IF v = None THEN StrVal(<<>>) ELSE v

\* col(name) of update_sheet, 1-based; defined when the column exists
col(headers, name) == index(headers, <<name>>) + 1

\* the first column name whose col() call raises, if any
missing_columns(headers) ==
    SelectSeq(Columns, LAMBDA name : ~has_column(headers, name))

\* add(col_idx, value): the A1 range is the column letters followed by the
\* row number, kept as the pair (letters, row)
add(col_idx, row_idx, value) ==
    [range |-> [letters |-> column_to_letter(col_idx), row |-> row_idx],
     values |-> val(value)]

\* items.get(link)
items_get(items, link) == IF link \in DOMAIN items THEN <<items[link]>> ELSE <<>>

\* the eight add() calls for one row
row_updates(headers, row_idx, it) ==
    [k \in 1..NumFields |-> add(col(headers, OutColumn(k)), row_idx, it[Fields[k]])]

\* the loop over values[1:], enumerate(start=2): row_idx is the sheet row
RECURSIVE updates_from(_, _, _)
updates_from(values, items, row_idx) ==
    IF row_idx > Len(values) THEN <<>>
    ELSE LET link == strip(values[row_idx][col(values[1], "link")])
             got == items_get(items, link)
         IN  (IF got = <<>> THEN <<>> ELSE row_updates(values[1], row_idx, got[1]))
             \o updates_from(values, items, row_idx + 1)

\* one batch_update call per cell
batch_calls_per_cell(updates) == [i \in 1..Len(updates) |-> <<updates[i]>>]

\* the batch_update calls update_sheet makes: none for an empty list
batch_calls(updates) == IF updates # <<>> THEN <<updates>> ELSE <<>>

\* items.setdefault(link, item): the first record of a link is kept
items_set_first(items, link, it) ==
    [k \in DOMAIN items \cup {link} |-> IF k \in DOMAIN items THEN items[k] ELSE it]

\* items[link] = item
items_set(items, link, it) ==
    [k \in DOMAIN items \cup {link} |-> IF k = link THEN it ELSE items[k]]

\* attempts of parse_item
attempts == 3

\* the retry hint one attempt late
second_req_late(n) == n > 2

\* second_req=(attempt > 1)
second_req(n) == n > 1

-----------------------------------------------------------------------------
(* Stores the run can meet *)

BoundedSeq(S, n) == UNION {[1..k -> S] : k \in 0..n}

HeaderOf(names) == [i \in 1..Len(names) |-> <<names[i]>>]

CanonicalHeader == HeaderOf(Columns)

\* other order, foreign columns, a repeated name
ShuffledHeader ==
    HeaderOf(<<"sku", "model", "brand", "mpn", "condition", "title", "delivery time",
               "shipping price", "price", "link", "price">>)

\* eighteen unnamed columns first: link is column S, brand Z, model AA
WideHeader == [i \in 1..18 |-> <<>>] \o HeaderOf(Columns)

NoMpnHeader == HeaderOf(SelectSeq(Columns, LAMBDA name : name # "mpn"))

NoLinkHeader == HeaderOf(SelectSeq(Columns, LAMBDA name : name # "link"))

Headers == {CanonicalHeader, ShuffledHeader, WideHeader, NoMpnHeader, NoLinkHeader}

\* what the identity column of a data row can hold
Cells == { <<>>, <<" ">>, <<"a">>, <<" ", "a", " ">>, <<"b">> }

\* the column the cells go to: the link column, or the first one without it
CellColumn(headers) == IF has_column(headers, "link") THEN col(headers, "link") ELSE 1

DataRow(headers, cell) ==
    [j \in 1..Len(headers) |-> IF j = CellColumn(headers) THEN cell ELSE <<>>]

SheetOf(headers, cells) ==
    <<headers>> \o [i \in 1..Len(cells) |-> DataRow(headers, cells[i])]

Sheets ==
    { <<>> } \cup { SheetOf(h, cs) : h \in Headers, cs \in BoundedSeq(Cells, MaxRows) }

\* the stores a whole run is explored on
RunHeaders == {CanonicalHeader, NoMpnHeader, NoLinkHeader}

RunSheets ==
    { <<>> } \cup { SheetOf(h, cs) : h \in RunHeaders, cs \in BoundedSeq(Cells, MaxRows) }

-----------------------------------------------------------------------------
(* State *)

VARIABLES
    sheet,        \* the worksheet, as get_all_values() returns it
    pc,           \* where main is
    driver,       \* request._driver: "none" or "up"
    links,        \* main: links
    idx,          \* main: idx, the position in links
    item,         \* parse_item: item
    attempt,      \* parse_item: attempt
    trace,        \* get_page calls of the current parse_item, with their outcome
    items,        \* main: items
    returned,     \* the records parse_item returned, in call order
    fetches,      \* number of get_page calls of the run
    updateCalls,  \* number of update_sheet calls of the run
    batches,      \* the batch_update calls made, each its list of updates
    error,        \* the exception that ended the run
    markup,       \* Parser: the page under extraction
    shipping      \* Parser: what get_shipping returned

vars ==
    <<sheet, pc, driver, links, idx, item, attempt, trace, items, returned,
      fetches, updateCalls, batches, error, markup, shipping>>

NoError == [kind |-> "none", column |-> ""]

ColumnError(name) == [kind |-> "RuntimeError", column |-> name]

Raised(what) == [kind |-> what, column |-> ""]

Pending == [tag |-> "pending", n |-> 0, s |-> <<>>]

Init ==
    /\ sheet \in RunSheets
    /\ pc = "start"
    /\ driver = "none"
    /\ links = <<>>
    /\ idx = 0
    /\ item = Item(<<>>)
    /\ attempt = 0
    /\ trace = <<>>
    /\ items = <<>>
    /\ returned = <<>>
    /\ fetches = 0
    /\ updateCalls = 0
    /\ batches = <<>>
    /\ error = NoError
    /\ markup = EmptyHtml
    /\ shipping = Pending

-----------------------------------------------------------------------------
(* main *)

\* links = get_links(sheet)
GetLinks ==
    /\ pc = "start"
    /\ IF get_links_error(sheet)
       THEN /\ pc' = "aborted"
            /\ error' = ColumnError("link")
            /\ links' = links
       ELSE /\ pc' = "loop"
            /\ links' = get_links(sheet)
            /\ error' = error
    /\ UNCHANGED <<sheet, driver, idx, item, attempt, trace, items, returned,
                   fetches, updateCalls, batches, markup, shipping>>

\* the for loop of main has another link
loop_more(i, ls) == i < Len(ls)

\* the for loop takes the next link and calls parse_item: item = Item(link)
CallParseItem ==
    /\ pc = "loop"
    /\ loop_more(idx, links)
    /\ idx' = idx + 1
    /\ item' = Item(links[idx + 1])
    /\ attempt' = 0
    /\ trace' = <<>>
    /\ pc' = "item"
    /\ UNCHANGED <<sheet, driver, links, items, returned, fetches, updateCalls,
                   batches, error, markup, shipping>>

\* parse_item without the return in the try block
after_attempt_no_return(outcome, n) ==
    CASE outcome \in {"driver_raised", "parser_raised"} -> "crashed"
      [] OTHER -> IF n < attempts THEN "item" ELSE "return"

\* where parse_item goes after an attempt
after_attempt(outcome, n) ==
    CASE outcome = "parsed" -> "return"
      [] outcome \in {"driver_raised", "parser_raised"} -> "crashed"
      [] OTHER -> IF n < attempts THEN "item" ELSE "return"

\* how an attempt ended: get_driver raised; get_page gave None; Parser(page)
\* raised; a statement of the try block raised; all eight returned
outcome_of(create_fails, page, fault) ==
    IF create_fails THEN "driver_raised"
    ELSE IF page = <<>> THEN "empty"
    ELSE IF fault = 0 THEN "parser_raised"
    ELSE IF fault = NoFault THEN "parsed"
    ELSE "parse_error"

\* What the browser does on driver.get(url): it raises, or page_source
\* is one of the page sources.
Responses ==
    { [html |-> EmptyHtml, driver_error |-> TRUE] }
      \cup { [html |-> h, driver_error |-> FALSE] : h \in Htmls }

\* one iteration of the loop of parse_item
Attempt ==
    /\ pc = "item"
    /\ \E resp \in Responses, create_fails \in {FALSE, driver = "none"} :
          LET page == get_page(resp.html, resp.driver_error)
          IN  \E fault \in IF create_fails \/ page = <<>> THEN {NoFault} ELSE Faults :
                 LET outcome == outcome_of(create_fails, page, fault)
                 IN  /\ attempt' = attempt + 1
                     /\ fetches' = fetches + 1
                     /\ driver' = IF create_fails THEN "none" ELSE "up"
                     /\ trace' = Append(trace, [url |-> item.link,
                                                second_req |-> second_req(attempt + 1),
                                                outcome |-> outcome])
                     /\ item' = IF outcome \in {"parsed", "parse_error"}
                                THEN try_block(item, page[1], fault)
                                ELSE item
                     /\ pc' = after_attempt(outcome, attempt + 1)
                     /\ error' = IF after_attempt(outcome, attempt + 1) = "crashed"
                                 THEN Raised(outcome) ELSE error
    /\ UNCHANGED <<sheet, links, idx, items, returned, updateCalls, batches,
                   markup, shipping>>

\* parse_item returns; items[link] = item
Return ==
    /\ pc = "return"
    /\ returned' = Append(returned, item)
    /\ items' = items_set(items, links[idx], item)
    /\ pc' = "loop"
    /\ UNCHANGED <<sheet, driver, links, idx, item, attempt, trace, fetches,
                   updateCalls, batches, error, markup, shipping>>

\* update_sheet(sheet, items), after the loop
UpdateSheet ==
    /\ pc = "loop"
    /\ ~loop_more(idx, links)
    /\ updateCalls' = updateCalls + 1
    /\ IF sheet = <<>>
       THEN /\ pc' = "done"
            /\ UNCHANGED <<batches, error>>
       ELSE IF missing_columns(sheet[1]) # <<>>
       THEN /\ pc' = "aborted"
            /\ error' = ColumnError(missing_columns(sheet[1])[1])
            /\ UNCHANGED batches
       ELSE /\ pc' = "done"
            /\ batches' = batches \o batch_calls(updates_from(sheet, items, 2))
            /\ UNCHANGED error
    /\ UNCHANGED <<sheet, driver, links, idx, item, attempt, trace, items,
                   returned, fetches, markup, shipping>>

Next == GetLinks \/ CallParseItem \/ Attempt \/ Return \/ UpdateSheet

Spec == Init /\ [][Next]_vars

-----------------------------------------------------------------------------
(* update_sheet on its own: the sheet as read at write time need not be    *)
(* the sheet the links were read from.  The run has resolved the links of  *)
(* the earlier sheet; each resolution failed on every fetch ("empty") or   *)
(* parsed a listing at once.                                               *)

Keys == << <<"a">>, <<"b">>, <<"c">> >>

Resolutions == {"empty", "listing1", "listing2"}

ResolvedRecord(link, how) ==
    CASE how = "empty" -> Item(link)
      [] how = "listing1" -> try_block(Item(link), Listing1, NoFault)
      [] how = "listing2" -> try_block(Item(link), Listing2, NoFault)

ResolvedTrace(link, how) ==
    IF how = "empty"
    THEN [n \in 1..attempts |->
             [url |-> link, second_req |-> second_req(n), outcome |-> "empty"]]
    ELSE <<[url |-> link, second_req |-> second_req(1), outcome |-> "parsed"]>>

RECURSIVE SumLen(_)
SumLen(ts) == IF ts = <<>> THEN 0 ELSE Len(Head(ts)) + SumLen(Tail(ts))

RECURSIVE Aggregate(_, _)
Aggregate(ls, recs) ==
    IF ls = <<>> THEN <<>>
    ELSE items_set(Aggregate(SubSeq(ls, 1, Len(ls) - 1), SubSeq(recs, 1, Len(recs) - 1)),
                   ls[Len(ls)], recs[Len(recs)])

WriteInit ==
    /\ sheet \in Sheets
    /\ pc = "loop"
    /\ \E present \in SUBSET (1..Len(Keys)) :
          /\ links = SelectSeq(Keys, LAMBDA k : \E i \in present : Keys[i] = k)
          /\ \E how \in [1..Cardinality(present) -> Resolutions] :
                LET traces == [i \in 1..Len(links) |-> ResolvedTrace(links[i], how[i])]
                IN  /\ returned = [i \in 1..Len(links) |-> ResolvedRecord(links[i], how[i])]
                    /\ trace = IF links = <<>> THEN <<>> ELSE traces[Len(links)]
                    /\ fetches = SumLen(traces)
    /\ idx = Len(links)
    /\ driver = IF links = <<>> THEN "none" ELSE "up"
    /\ item = IF links = <<>> THEN Item(<<>>) ELSE returned[Len(links)]
    /\ attempt = Len(trace)
    /\ items = Aggregate(links, returned)
    /\ updateCalls = 0
    /\ batches = <<>>
    /\ error = NoError
    /\ markup = EmptyHtml
    /\ shipping = Pending

WriteNext == UpdateSheet

SpecWrite == WriteInit /\ [][WriteNext]_vars

-----------------------------------------------------------------------------
(* Parser.get_shipping on its own *)

ShipLexemes == {"Free", "May not ship to", "US $", "15.00", " ", "Canada"}

\* the spans around the first bold span of the shipping block
ShipContexts ==
    { [before |-> <<>>, after |-> <<>>],
      [before |-> <<Span(FALSE, <<"Free">>)>>, after |-> <<Span(TRUE, <<"US $", "9.99">>)>>],
      [before |-> <<Span(FALSE, <<"May not ship to">>)>>, after |-> <<Span(TRUE, <<"Free">>)>>] }

ShipPage(block) == [EmptyHtml EXCEPT !.body = <<"listing">>, !.shipping = block]

ShipPages ==
    { ShipPage(<<>>), ShipPage(<< <<Span(FALSE, <<"Free">>)>> >>) }
      \cup { ShipPage(<< c.before \o <<Span(TRUE, t)>> \o c.after >>) :
                c \in ShipContexts, t \in BoundedSeq(ShipLexemes, MaxTextLen) }

ShipInit ==
    /\ markup \in ShipPages
    /\ shipping = Pending
    /\ pc = "parser"
    /\ sheet = <<>>
    /\ driver = "up"
    /\ links = <<>>
    /\ idx = 0
    /\ item = Item(<<>>)
    /\ attempt = 0
    /\ trace = <<>>
    /\ items = <<>>
    /\ returned = <<>>
    /\ fetches = 0
    /\ updateCalls = 0
    /\ batches = <<>>
    /\ error = NoError

\* item.shipping = parser.get_shipping()
GetShipping ==
    /\ pc = "parser"
    /\ shipping' = get_shipping(markup)
    /\ pc' = "extracted"
    /\ UNCHANGED <<sheet, driver, links, idx, item, attempt, trace, items, returned,
                   fetches, updateCalls, batches, error, markup>>

ShipNext == GetShipping

SpecShip == ShipInit /\ [][ShipNext]_vars

-----------------------------------------------------------------------------
(* Properties *)

Last(q) == q[Len(q)]

InParseItem == pc \in {"item", "return"}

NoAttemptParsed == \A i \in 1..Len(trace) : trace[i].outcome # "parsed"

AllFieldsNone(it) == \A k \in 1..NumFields : it[Fields[k]] = None

\* C1: parse_item is total: whatever each attempt meets (an empty fetch, a
\* parse that succeeds, a parse that raises at any step, the construction of
\* the parser included), it does not raise, and it returns a record whose
\* link is the link it was given.
C1_ResolveTotal ==
    /\ pc = "crashed" =>
          Last(trace).outcome \notin {"empty", "parsed", "parse_error", "parser_raised"}
    /\ pc = "return" => item.link = links[idx]

\* C2: once an attempt parses fully, parse_item returns at once: that
\* attempt is the last of the call, nothing is fetched after it, and the
\* record it filled is the record returned and stored, unchanged.
C2_RetryMonotonic ==
    /\ [](\A i \in 1..Len(trace) :
             trace[i].outcome = "parsed" => i = Len(trace) /\ pc # "item")
    /\ [][(pc = "return" /\ Last(trace).outcome = "parsed") =>
             /\ fetches' = fetches
             /\ trace' = trace
             /\ item' = item
             /\ returned' = Append(returned, item)
             /\ items'[links[idx]] = item]_vars

C2_Witness ==
    /\ pc = "loop"
    /\ Len(trace) = 2
    /\ Last(trace).outcome = "parsed"
    /\ returned # <<>>
    /\ Last(returned) = try_block(Item(links[idx]), Listing1, NoFault)

\* C3: an attempt whose extraction raises leaves the eight fields as they
\* were: as long as no attempt of the call has parsed fully, every field of
\* the record is still None.
C3_FailedAttemptKeepsRecord ==
    (InParseItem /\ NoAttemptParsed) => AllFieldsNone(item)

\* C4: with the link column or one of the eight output columns missing from
\* the header row, the run aborts before any get_page call.
C4_SchemaFailFast ==
    (sheet # <<>> /\ missing_columns(sheet[1]) # <<>>) => fetches = 0

\* C5: the get_page calls of one parse_item(link) are a non-empty prefix of
\* (link, False), (link, True), (link, True); an attempt is followed by
\* another only if it ended in an empty fetch or a parsing error.
C5_FetchSequence ==
    /\ Len(trace) <= 3
    /\ pc \in {"return", "crashed"} => trace # <<>>
    /\ \A i \in 1..Len(trace) :
          /\ trace[i].url = links[idx]
          /\ trace[i].second_req = (i > 1)
          /\ i < Len(trace) => trace[i].outcome \in {"empty", "parse_error"}

C5_Witness ==
    /\ pc = "return"
    /\ Len(trace) = 3
    /\ trace[1].outcome = "empty"
    /\ trace[2].outcome = "parse_error"
    /\ trace[3].outcome = "parsed"

AllEmpty == \A i \in 1..Len(trace) : trace[i].outcome = "empty"

\* C6: an attempt whose fetch gives None leaves the record as it was; when
\* every fetch of a call gives None, parse_item makes exactly 3 get_page
\* calls and returns the record with its link set and the eight fields None.
C6_EmptyFetches ==
    /\ []((pc = "return" /\ AllEmpty) =>
             /\ Len(trace) = 3
             /\ item.link = links[idx]
             /\ AllFieldsNone(item))
    /\ [][(trace' # trace /\ trace' # <<>> /\ Last(trace').outcome = "empty") =>
             item' = item]_vars

C6_Witness ==
    /\ pc = "return"
    /\ Len(trace) = 3
    /\ AllEmpty
    /\ item = Item(links[idx])
    /\ idx = 2

\* the position in links of the last resolution of link l so far
LastResolution(l) ==
    CHOOSE i \in 1..Len(returned) :
        links[i] = l /\ \A j \in (i + 1)..Len(returned) : links[j] # l

AfterLoop == updateCalls >= 1 \/ (pc = "loop" /\ idx = Len(links))

\* C7: the links are resolved in input order, one resolution per
\* occurrence; items has exactly the resolved links as keys, each with the
\* record of its last resolution; after the loop those are all the links.
C7_Aggregation ==
    /\ Len(returned) <= Len(links)
    /\ \A i \in 1..Len(returned) : returned[i].link = links[i]
    /\ DOMAIN items = {links[i] : i \in 1..Len(returned)}
    /\ \A l \in DOMAIN items : items[l] = returned[LastResolution(l)]
    /\ AfterLoop => Len(returned) = Len(links)

C7_Witness ==
    /\ pc = "done"
    /\ Len(links) = 2
    /\ links[1] = links[2]
    /\ returned[1] # returned[2]
    /\ items[links[1]] = returned[2]

\* C8: update_sheet is called at most once, and once in a run that
\* completes; when it is called every link has been resolved and items
\* holds them all; it makes at most one batch_update call, none is made
\* before it, and nothing is fetched or stored after it.
C8_BatchWriteBack ==
    /\ [](/\ updateCalls <= 1
          /\ Len(batches) <= 1
          /\ batches # <<>> => updateCalls = 1
          /\ pc = "done" => updateCalls = 1
          /\ updateCalls = 1 =>
                /\ Len(returned) = Len(links)
                /\ DOMAIN items = {links[i] : i \in 1..Len(links)})
    /\ [][updateCalls = 1 =>
             /\ fetches' = fetches
             /\ items' = items
             /\ returned' = returned
             /\ item' = item
             /\ batches' = batches]_vars

C8_Witness ==
    /\ pc = "done"
    /\ Len(batches) = 1
    /\ Len(links) = 2
    /\ links[1] # links[2]
    /\ fetches >= 4

\* the column number an A1 column name stands for
LetterRank(c) == CHOOSE n \in 1..26 : chr65(n - 1) = c

RECURSIVE LettersToColumn(_)
LettersToColumn(ls) ==
    IF ls = <<>> THEN 0
    ELSE 26 * LettersToColumn(SubSeq(ls, 1, Len(ls) - 1)) + LetterRank(Last(ls))

\* the first position of a name in the header row
HeaderPosition(name) ==
    CHOOSE i \in 1..Len(sheet[1]) :
        sheet[1][i] = <<name>> /\ \A j \in 1..(i - 1) : sheet[1][j] # <<name>>

\* the sheet rows whose stripped link has an entry in items
MatchedRows ==
    {r \in 2..Len(sheet) : strip(sheet[r][HeaderPosition("link")]) \in DOMAIN items}

Written == IF batches = <<>> THEN <<>> ELSE batches[1]

\* the cells written: column, row and value of each update
WrittenCells ==
    {[column |-> LettersToColumn(Written[i].range.letters),
      row |-> Written[i].range.row,
      value |-> Written[i].values] : i \in 1..Len(Written)}

\* the cells C9 asks for
ExpectedCells ==
    {[column |-> HeaderPosition(OutColumn(k)),
      row |-> r,
      value |-> LET v == items[strip(sheet[r][HeaderPosition("link")])][Fields[k]]
                IN  IF v = None THEN StrVal(<<>>) ELSE v] :
        r \in MatchedRows, k \in 1..NumFields}

\* C9: the one bulk write of update_sheet holds exactly eight updates for
\* every data row whose stripped link has an entry in items, one per output
\* column at the column its name has in the header row, None written as "",
\* and nothing else: no update for a link missing from the sheet, none in
\* the header row, none in the link column.
C9_WriteCoverage ==
    /\ Len(batches) <= 1
    /\ pc = "aborted" => batches = <<>>
    /\ (pc = "done" /\ sheet = <<>>) => batches = <<>>
    /\ (pc = "done" /\ sheet # <<>>) =>
          /\ WrittenCells = ExpectedCells
          /\ Len(Written) = NumFields * Cardinality(MatchedRows)
          /\ \A i \in 1..Len(Written) :
                /\ Written[i].range.row >= 2
                /\ LettersToColumn(Written[i].range.letters) # HeaderPosition("link")

C9_Witness ==
    /\ pc = "done"
    /\ sheet # <<>>
    /\ sheet[1] = WideHeader
    /\ Cardinality(MatchedRows) = 2
    /\ Len(Written) = 16
    /\ \E l \in DOMAIN items : \A r \in 2..Len(sheet) : strip(sheet[r][19]) # l
    /\ \E i \in 1..Len(Written) : Written[i].values = StrVal(<<>>)
    /\ \E i \in 1..Len(Written) : Written[i].values = IntVal(0)
    /\ \E i \in 1..Len(Written) : Written[i].range.letters = <<"A", "A">>

HasFirstBold ==
    /\ markup.shipping # <<>>
    /\ \E i \in 1..Len(markup.shipping[1]) : markup.shipping[1][i].bold

\* the text of the first bold span of the shipping block
FirstBoldText ==
    LET el == markup.shipping[1]
        first == CHOOSE i \in 1..Len(el) : el[i].bold /\ \A j \in 1..(i - 1) : ~el[j].bold
    IN  el[first].text

Undeliverable == StrVal(<<"Cannot be delivered to your country">>)

\* C10 as stated: with both "Free" and a "US $" number in the first bold
\* span's text get_shipping returns 0; with "May not ship to" in it the
\* result is the fixed string, whatever else the text holds.
C10_ShippingPrecedence_AsStated ==
    (pc = "extracted" /\ HasFirstBold) =>
        /\ (contains(FirstBoldText, "Free") /\ contains(FirstBoldText, "US $")) =>
              shipping = IntVal(0)
        /\ contains(FirstBoldText, "May not ship to") => shipping = Undeliverable

\* C10, amended: with "Free" in the first bold span's text get_shipping
\* returns 0, whatever else the text holds ("US $", "May not ship to");
\* with "May not ship to" and no "Free" in it the result is the fixed
\* string, whatever else the text holds.
C10_ShippingPrecedence ==
    (pc = "extracted" /\ HasFirstBold) =>
        /\ contains(FirstBoldText, "Free") => shipping = IntVal(0)
        /\ (contains(FirstBoldText, "May not ship to") /\ ~contains(FirstBoldText, "Free")) =>
              shipping = Undeliverable

C10_Witness ==
    /\ pc = "extracted"
    /\ HasFirstBold
    /\ contains(FirstBoldText, "May not ship to")
    /\ contains(FirstBoldText, "US $")
    /\ ~contains(FirstBoldText, "Free")
    /\ markup.shipping[1][1].text = <<"Free">>
    /\ shipping = Undeliverable

=============================================================================
